---- MODULE Spec2Model ----
(***************************************************************************)
(* Model of the payment page's Amount Calculator (PaymentPage component):  *)
(* the base amount field, the preset tip buttons, the custom tip field and *)
(* the derived subtotal / tip / total.                                     *)
(*                                                                         *)
(* Text is a sequence of one-character strings.  Numbers are held in units *)
(* of 1/100 cent, which represents exactly every value the component can   *)
(* compute from texts with at most two decimals and the percentages        *)
(* 10, 15 and 20 (binary floating point rounding is not modelled).         *)
(*                                                                         *)
(* Two further specifications cover the services the page sits on:         *)
(* SpecProfile applies ProfileService.isProfileComplete to a profile, and  *)
(* SpecAuth runs one AuthService call from its validation to its return,   *)
(* SpecApp runs the App component (authentication, profile loading,        *)
(* navigation) with SpecAppLive as its fair version, and SpecStore runs    *)
(* concurrent ProfileService calls against the Profile table.              *)
(***************************************************************************)
EXTENDS Integers, Sequences, FiniteSets, TLC

VARIABLES baseAmount, baseAmountInput, selectedTip, customTip,
          customTipDisplay, lastOp, profileCheck, authCall, app, store

vars == <<baseAmount, baseAmountInput, selectedTip, customTip,
          customTipDisplay, lastOp, profileCheck, authCall, app, store>>

(* the state of the services, which the payment page never touches *)
svcVars == <<profileCheck, authCall, app, store>>

calc == <<baseAmount, baseAmountInput, selectedTip, customTip,
          customTipDisplay>>

----------------------------------------------------------------------------
(* Bounds and input alphabet *)

MaxLen == 2

Alphabet == {"5", "."}

RECURSIVE TextsOfLen(_)
TextsOfLen(n) ==
  IF n = 0 THEN {<<>>}
  ELSE {Append(t, c) : t \in TextsOfLen(n - 1), c \in Alphabet}

ShortTexts == UNION {TextsOfLen(n) : n \in 0..MaxLen}

ExtraTexts ==
  { <<"a">>,
    <<"$", "5">>,
    <<"0">>,
    <<"1">>,
    <<"0", ".", "5", "0">>,
    <<"0", ".", "9", "9">>,
    <<"5", ".", "0", "0">>,
    <<"1", ".", "2", "3", "4">>,
    <<"1", "2", ".", "3", "0">>,
    <<"7", "5", ".", "5", "0">>,
    <<"2", "0", "0", ".", "0", "0">> }

InputTexts == ShortTexts \cup ExtraTexts

----------------------------------------------------------------------------
(* Numbers and text conversions *)

Dollar == 100 * 100

NaN == -1

isNaN(x) == x < 0

Digits == {"0", "1", "2", "3", "4", "5", "6", "7", "8", "9"}

DigitVal ==
  "0" :> 0 @@ "1" :> 1 @@ "2" :> 2 @@ "3" :> 3 @@ "4" :> 4 @@
  "5" :> 5 @@ "6" :> 6 @@ "7" :> 7 @@ "8" :> 8 @@ "9" :> 9

DigitChar == [d \in 0..9 |-> CHOOSE c \in Digits : DigitVal[c] = d]

Min(S) == CHOOSE x \in S : \A y \in S : x <= y

Max2(a, b) == IF a >= b THEN a ELSE b

(* value.replace(/[^0-9.]/g, '') *)
stripNonNumeric(value) ==
  SelectSeq(value, LAMBDA c : c \in Digits \cup {"."})

(* the pattern with three decimals allowed: \d{0,3} *)
amountPattern_ThreeDecimals(s) ==
  LET dots == {i \in 1..Len(s) : s[i] = "."}
  IN /\ \A i \in 1..Len(s) : s[i] \in Digits \cup {"."}
     /\ Cardinality(dots) <= 1
     /\ \A i \in dots : Len(s) - i <= 3

(* the pattern with more than one "." allowed *)
amountPattern_ManyDots(s) ==
  LET dots == {i \in 1..Len(s) : s[i] = "."}
  IN /\ \A i \in 1..Len(s) : s[i] \in Digits \cup {"."}
     /\ \A i \in dots : Len(s) - i <= 2

(* /^\d*\.?\d{0,2}$/.test(s) *)
amountPattern(s) ==
  LET dots == {i \in 1..Len(s) : s[i] = "."}
  IN /\ \A i \in 1..Len(s) : s[i] \in Digits \cup {"."}
     /\ Cardinality(dots) <= 1
     /\ \A i \in dots : Len(s) - i <= 2

(* number of leading decimal digits of s *)
LeadingDigits(s) ==
  LET nd == {i \in 1..Len(s) : s[i] \notin Digits}
  IN IF nd = {} THEN Len(s) ELSE Min(nd) - 1

RECURSIVE DigitsValue(_)
DigitsValue(s) ==
  IF Len(s) = 0 THEN 0
  ELSE 10 * DigitsValue(SubSeq(s, 1, Len(s) - 1)) + DigitVal[s[Len(s)]]

(* the first four fractional digits, in units of 1/100 cent *)
FracValue(f) ==
  LET d(i) == IF i <= Len(f) THEN DigitVal[f[i]] ELSE 0
  IN 1000 * d(1) + 100 * d(2) + 10 * d(3) + d(4)

(* parseFloat(s) for unsigned decimal text: the longest prefix of the form *)
(* digits [ "." digits ] with at least one digit, else NaN                 *)
parseFloat(s) ==
  LET n    == LeadingDigits(s)
      int  == SubSeq(s, 1, n)
      rest == IF n < Len(s) /\ s[n + 1] = "."
              THEN SubSeq(s, n + 2, Len(s)) ELSE <<>>
      frac == SubSeq(rest, 1, LeadingDigits(rest))
  IN IF n = 0 /\ Len(frac) = 0 THEN NaN
     ELSE DigitsValue(int) * Dollar + FracValue(frac)

RECURSIVE NatToText(_)
NatToText(n) ==
  IF n < 10 THEN <<DigitChar[n]>>
  ELSE Append(NatToText(n \div 10), DigitChar[n % 10])

(* x.toFixed(2): round to the nearest cent, print with two decimals *)
toFixed2(x) ==
  LET cents == (x + 50) \div 100
  IN NatToText(cents \div 100) \o
     <<".", DigitChar[(cents % 100) \div 10], DigitChar[cents % 10]>>

----------------------------------------------------------------------------
(* Derived amounts *)

tipPercentages == {10, 15, 20}

(* the percentage taken as a fraction of ten *)
calculateTipAmount_PerTen(percentage) == (baseAmount * percentage) \div 10

calculateTipAmount(percentage) == (baseAmount * percentage) \div 100

getTotalAmount ==
  IF customTip # <<>>
  THEN baseAmount + parseFloat(customTip)
  ELSE baseAmount + calculateTipAmount(selectedTip)

(* the Subtotal / Tip / Total breakdown rendered by the page *)
derivedAmounts ==
  [subtotal |-> baseAmount,
   tip      |-> IF customTip # <<>> THEN parseFloat(customTip)
                ELSE calculateTipAmount(selectedTip),
   total    |-> getTotalAmount]

(* the minimum itself not accepted *)
isValidPayment_Strict == baseAmount > Dollar

isValidPayment == baseAmount >= Dollar

tipButtonDisabled == customTip # <<>>

(* a Pay button that is never disabled *)
payButtonDisabled_Never == FALSE

payButtonDisabled == ~isValidPayment

----------------------------------------------------------------------------
(* ProfileService: profile completeness *)

MaxFieldLen == 2

WhiteSpace == {" ", "\t"}

FieldAlphabet == {"a"} \cup WhiteSpace

RECURSIVE FieldTextsOfLen(_)
FieldTextsOfLen(n) ==
  IF n = 0 THEN {<<>>}
  ELSE {Append(t, c) : t \in FieldTextsOfLen(n - 1), c \in FieldAlphabet}

FieldTexts == UNION {FieldTextsOfLen(n) : n \in 0..MaxFieldLen}

(* an optional string field: absent (undefined), null or a string *)
undefined == [kind |-> "undefined", text |-> <<>>]

null == [kind |-> "null", text |-> <<>>]

String(t) == [kind |-> "string", text |-> t]

FieldValues == {undefined, null} \cup {String(t) : t \in FieldTexts}

(* the two fields of a UserProfile that completeness reads *)
UserProfiles == [business_name : FieldValues, phone : FieldValues]

RECURSIVE trimStart(_)
trimStart(s) ==
  IF s # <<>> /\ Head(s) \in WhiteSpace THEN trimStart(Tail(s)) ELSE s

RECURSIVE trimEnd(_)
trimEnd(s) ==
  IF s # <<>> /\ s[Len(s)] \in WhiteSpace
  THEN trimEnd(SubSeq(s, 1, Len(s) - 1))
  ELSE s

trim(s) == trimEnd(trimStart(s))

(* field?.trim() : undefined when the field is null or undefined *)
optionalTrim(field) ==
  IF field.kind = "string" THEN String(trim(field.text)) ELSE undefined

(* JavaScript truthiness of an optional string *)
truthy(field) == field.kind = "string" /\ field.text # <<>>

(* completeness that does not trim the fields *)
isProfileComplete_NoTrim(profile) ==
  truthy(profile.business_name) /\ truthy(profile.phone)

isProfileComplete(profile) ==
  /\ truthy(optionalTrim(profile.business_name))
  /\ truthy(optionalTrim(profile.phone))

(* no completeness check asked for *)
ProfileIdle ==
  [profile |-> [business_name |-> undefined, phone |-> undefined],
   done |-> FALSE, complete |-> FALSE]

----------------------------------------------------------------------------
(* AuthService: input validation and error results *)

UpperCase == {"A"}

LowerCase == {"a", "b", "c"}

SpecialChars ==
  {"!", "@", "#", "$", "%", "^", "&", "*", "(", ")", ",", ".", "?", "\"",
   ":", "{", "}", "|", "<", ">"}

toLowerCase(s) ==
  [k \in 1..Len(s) |-> IF s[k] = "A" THEN "a" ELSE s[k]]

(* /^[^\s@]+@[^\s@]+\.[^\s@]+$/ : one "@" that is not first, no white     *)
(* space, and a "." after the "@" that is neither next to it nor last      *)
emailRegex(t) ==
  \E i \in 1..Len(t), j \in 1..Len(t) :
    /\ t[i] = "@"
    /\ t[j] = "."
    /\ 1 < i
    /\ i + 1 < j
    /\ j < Len(t)
    /\ \A k \in 1..Len(t) : k # i => t[k] \notin WhiteSpace \cup {"@"}

validateEmail(email) == emailRegex(toLowerCase(trim(email)))

validatePassword(password) ==
  /\ Len(password) >= 8
  /\ \E k \in 1..Len(password) : password[k] \in UpperCase
  /\ \E k \in 1..Len(password) : password[k] \in LowerCase
  /\ \E k \in 1..Len(password) : password[k] \in Digits
  /\ \E k \in 1..Len(password) : password[k] \in SpecialChars

Emails ==
  { <<"a", "@", "b", ".", "c">>,
    <<"A", "@", "b", ".", "c">>,
    <<" ", "a", "@", "b", ".", "c", " ">>,
    <<"a", "@", "b">>,
    <<"a", "@", ".", "c">>,
    <<"a", "@", "@", "b", ".", "c">>,
    <<"a", " ", "b", "@", "b", ".", "c">>,
    <<>> }

Passwords ==
  { <<"A", "a", "1", "!", "a", "a", "a", "a">>,
    <<"A", "a", "1", "!", "a", "a", "a">>,
    <<"a", "a", "a", "a", "a", "a", "a", "a">>,
    <<"a", "a", "a", "a", "a", "a">>,
    <<"a", "a", "a", "a", "a">> }

Names == { <<"a", "b">>, <<"a">>, <<" ", "a", " ">>, <<>> }

(* messages of the errors the auth provider reports: the ones              *)
(* getErrorMessage knows and one it does not                               *)
KnownProviderMessages ==
  { "Invalid login credentials", "User already registered",
    "Email not confirmed", "Too many requests", "Weak password",
    "Invalid email" }

ProviderMessages == KnownProviderMessages \cup {"Database error"}

(* what awaiting a provider call yields: data, an error, or an exception *)
ProviderOutcomes ==
  [kind : {"data"}, user : {"null", "value"}, session : {"null", "value"},
   message : {""}]
  \cup [kind : {"error"}, user : {"null"}, session : {"null"},
        message : ProviderMessages]
  \cup [kind : {"throws"}, user : {"null"}, session : {"null"},
        message : {""}]

getErrorMessage(error) ==
  CASE error.message = "Invalid login credentials" ->
         "Invalid email or password. Please check your credentials and try again."
    [] error.message = "User already registered" ->
         "This email is already registered. Please try signing in instead."
    [] error.message = "Email not confirmed" ->
         "Please check your email and click the verification link before signing in."
    [] error.message = "Too many requests" ->
         "Too many attempts. Please wait a few minutes before trying again."
    [] error.message = "Weak password" ->
         "Password is too weak. Please use a stronger password with at least 8 characters."
    [] error.message = "Invalid email" ->
         "Please enter a valid email address."
    [] OTHER ->
         IF error.message # "" THEN error.message
         ELSE "An error occurred. Please try again."

(* a provider error passed on without its code *)
providerError_NoCode(error) ==
  [message |-> getErrorMessage(error), code |-> ""]

(* { message: this.getErrorMessage(error), code: error.message } *)
providerError(error) ==
  [message |-> getErrorMessage(error), code |-> error.message]

(* the error the catch block of each operation returns *)
serviceError(op) ==
  CASE op = "signUp" ->
         [message |-> "An unexpected error occurred during signup",
          code |-> "SIGNUP_ERROR"]
    [] op = "signIn" ->
         [message |-> "An unexpected error occurred during signin",
          code |-> "SIGNIN_ERROR"]
    [] op = "signOut" ->
         [message |-> "An unexpected error occurred during signout",
          code |-> "SIGNOUT_ERROR"]
    [] op = "resetPassword" ->
         [message |-> "An unexpected error occurred", code |-> "RESET_ERROR"]
    [] op = "getSession" ->
         [message |-> "Failed to get session", code |-> "SESSION_ERROR"]
    [] op = "getUser" ->
         [message |-> "Failed to get user", code |-> "USER_ERROR"]

(* the fields of each operation's result besides error *)
HasUser(op) == op \in {"signUp", "signIn", "getUser"}

HasSession(op) == op \in {"signIn", "getSession"}

(* a result object; a field the operation's result does not have is       *)
(* "absent", error is <<>> for null and <<e>> for the error object e       *)
Success(op, user, session) ==
  [user    |-> IF HasUser(op) THEN user ELSE "absent",
   session |-> IF HasSession(op) THEN session ELSE "absent",
   error   |-> <<>>]

Failure(op, error) ==
  [user    |-> IF HasUser(op) THEN "null" ELSE "absent",
   session |-> IF HasSession(op) THEN "null" ELSE "absent",
   error   |-> <<error>>]

NoResult == [user |-> "absent", session |-> "absent", error |-> <<>>]

(* no call in progress *)
AuthIdle ==
  [op |-> "none", email |-> <<>>, password |-> <<>>, name |-> <<>>,
   pc |-> "idle", outcome |-> "none", result |-> NoResult]

----------------------------------------------------------------------------
(* App: authentication, profile loading and navigation *)

MaxEffectRuns == 2

MaxPendingLoads == 1

Views == {"dashboard", "payment", "settings"}

(* the profile row createProfile inserts, and the row after the profile   *)
(* completion form has been saved                                          *)
IncompleteProfile == [business_name |-> null, phone |-> null]

CompleteProfile ==
  [business_name |-> String(<<"a">>), phone |-> String(<<"1">>)]

(* one run of the auth effect: whether its getSession is still pending,   *)
(* whether the currentView its closure will read once getSession settles   *)
(* is the dashboard (nothing reads it after that), and its                 *)
(* authSubscription                                                        *)
EffectRun(view) ==
  [onDashboard |-> view = "dashboard", pc |-> "getSession",
   authSubscription |-> "undefined"]

(* the effect's cleanup function *)
cleanup(run) ==
  IF run.authSubscription = "live"
  THEN [run EXCEPT !.authSubscription = "unsubscribed"]
  ELSE run

(* a run that has settled and holds no live subscription does nothing     *)
(* more                                                                    *)
Finished(run) == run.pc = "done" /\ run.authSubscription # "live"

(* the runs that can still act, in the order they started *)
Unfinished(runs) == SelectSeq(runs, LAMBDA run : ~Finished(run))

(* the live subscriptions App has registered *)
LiveSubscriptions(a) ==
  {i \in 1..Len(a.effects) : a.effects[i].authSubscription = "live"}

(* a change of currentView re-runs the auth effect: the cleanup of the    *)
(* previous run, then a new run                                            *)
rerunAuthEffect(a, view) ==
  [a EXCEPT !.effects =
     Append(Unfinished([a.effects EXCEPT ![Len(a.effects)] = cleanup(@)]),
            EffectRun(view))]

setCurrentView(a, view) ==
  IF view = a.currentView THEN a
  ELSE rerunAuthEffect([a EXCEPT !.currentView = view], view)

(* whether setCurrentView(view) starts another run of the auth effect *)
Reruns(view) == view # app.currentView

(* the record of the handler that ran last, kept for the handlers the    *)
(* properties speak of                                                     *)
AppOp(name, session) == [op |-> name, session |-> session]

OtherOp == AppOp("other", FALSE)

Commit(a, last) == [a EXCEPT !.last = last]

(* the App component before its first render *)
AppIdle ==
  [currentView |-> "dashboard", isMenuOpen |-> FALSE,
   isAuthenticated |-> FALSE, isAuthModalOpen |-> FALSE,
   user |-> "null", session |-> "null", isLoading |-> TRUE,
   isProfileLoading |-> FALSE, userProfile |-> <<>>,
   isProfileComplete |-> FALSE, showProfileCompletion |-> FALSE,
   showLogoutConfirmation |-> FALSE,
   effects |-> <<>>, pendingLoads |-> 0,
   pendingReloads |-> 0, submitting |-> "none",
   storedProfile |-> IncompleteProfile, cleared |-> FALSE,
   last |-> OtherOp]

----------------------------------------------------------------------------
(* ProfileService: the Profile table and the calls that read and write it *)

MaxCalls == 2

(* an optional value of a read-only field: <<>> when left out, <<v>>       *)
Some(v) == <<v>>

None == <<>>

(* the user the calls are made for, and another user of the table *)
UserId == "u1"

OtherUserId == "u2"

(* a row of the Profile table *)
ProfileRow(id, user_id, name) ==
  [id |-> id, created_at |-> id, user_id |-> user_id,
   email |-> user_id, name |-> name,
   business_name |-> null, phone |-> null]

OtherUsersRow == ProfileRow(1, OtherUserId, String(<<"o">>))

(* the tables a call can find: no profile of the user, one, or two rows   *)
(* of the user left by earlier inserts                                     *)
InitialTables ==
  { {OtherUsersRow},
    {OtherUsersRow, ProfileRow(2, UserId, String(<<"a", "b">>))},
    {OtherUsersRow, ProfileRow(2, UserId, String(<<"a", "b">>)),
     ProfileRow(3, UserId, String(<<"a", "b">>))} }

(* .eq('user_id', userId).order('created_at', { ascending: false }) *)
RECURSIVE newestFirst(_)
newestFirst(rows) ==
  IF rows = {} THEN <<>>
  ELSE LET newest == CHOOSE r \in rows :
                       \A q \in rows : q.created_at <= r.created_at
       IN <<newest>> \o newestFirst(rows \ {newest})

profilesOf(rows, userId) ==
  newestFirst({r \in rows : r.user_id = userId})

(* profiles.slice(1).map(p => p.id) *)
duplicateIds(profiles) == {profiles[k].id : k \in 2..Len(profiles)}

(* Partial<UserProfile>: every key left out or given *)
NoUpdates ==
  [id |-> None, user_id |-> None, email |-> None, created_at |-> None,
   name |-> undefined, business_name |-> undefined, phone |-> undefined]

(* updates given to updateProfile itself: new values of the editable       *)
(* fields, and new values of the read-only fields with a name              *)
DirectUpdates ==
  { [NoUpdates EXCEPT !.business_name = String(<<"a", "b">>),
                      !.phone = String(<<"1", "2">>)],
    [NoUpdates EXCEPT !.id = Some(9), !.user_id = Some(OtherUserId),
                      !.email = Some(OtherUserId), !.created_at = Some(9),
                      !.name = String(<<" ", "c", "d">>)] }

(* updates a form sends to updateProfileWithValidation: valid ones, an     *)
(* empty name, a name and a business name of one character and blanks, a   *)
(* phone starting with 0                                                   *)
FormUpdates ==
  { [NoUpdates EXCEPT !.business_name = String(<<"a", "b">>),
                      !.phone = String(<<"1", "2">>)],
    [NoUpdates EXCEPT !.name = String(<<>>)],
    [NoUpdates EXCEPT !.name = String(<<" ", "a">>)],
    [NoUpdates EXCEPT !.phone = String(<<"0", "1">>)],
    [NoUpdates EXCEPT !.business_name = String(<<"a", " ">>)] }

(* const { id, user_id, email, created_at, ...allowedUpdates } = updates,  *)
(* with the read-only keys kept                                            *)
allowedUpdates_KeepsReadOnly(updates) == updates

(* const { id, user_id, email, created_at, ...allowedUpdates } = updates *)
allowedUpdates(updates) ==
  [updates EXCEPT !.id = None, !.user_id = None, !.email = None,
                  !.created_at = None]

(* what .update(updateData) does to the row it matches *)
applyUpdate(row, updateData) ==
  [id            |-> IF updateData.id # None THEN updateData.id[1]
                     ELSE row.id,
   created_at    |-> IF updateData.created_at # None
                     THEN updateData.created_at[1] ELSE row.created_at,
   user_id       |-> IF updateData.user_id # None THEN updateData.user_id[1]
                     ELSE row.user_id,
   email         |-> IF updateData.email # None THEN updateData.email[1]
                     ELSE row.email,
   name          |-> IF updateData.name.kind = "string" THEN updateData.name
                     ELSE row.name,
   business_name |-> IF updateData.business_name.kind = "string"
                     THEN updateData.business_name ELSE row.business_name,
   phone         |-> IF updateData.phone.kind = "string"
                     THEN updateData.phone ELSE row.phone]

(* /^[\+]?[1-9][\d]{0,15}$/ *)
phonePattern(t) ==
  LET digits == IF t # <<>> /\ Head(t) = "+" THEN Tail(t) ELSE t
  IN /\ Len(digits) \in 1..16
     /\ digits[1] \in Digits \ {"0"}
     /\ \A k \in 2..Len(digits) : digits[k] \in Digits

(* the error object of a failure: code is <<>> when the error has none *)
ServiceError(message, code) == [message |-> message, code |-> code]

(* validateProfileData: <<>> for null, <<e>> for the error e *)
validateProfileData(data) ==
  IF truthy(data.name) /\ Len(trim(data.name.text)) < 2
  THEN <<ServiceError("Name must be at least 2 characters long", None)>>
  ELSE IF truthy(data.phone) /\ Len(data.phone.text) > 0
          /\ ~phonePattern(data.phone.text)
  THEN <<ServiceError("Please enter a valid phone number", None)>>
  ELSE IF truthy(data.business_name)
          /\ Len(trim(data.business_name.text)) < 2
  THEN <<ServiceError("Business name must be at least 2 characters long",
                      None)>>
  ELSE <<>>

(* the sanitized copy of the updates *)
sanitizedUpdates(updates) ==
  [updates EXCEPT !.name = optionalTrim(@),
                  !.business_name = optionalTrim(@),
                  !.phone = optionalTrim(@)]

(* { profile, error } : <<>> for null *)
Result(profile, error) == [profile |-> profile, error |-> error]

NoLookup == [kind |-> "none", result |-> Result(<<>>, <<>>)]

(* a call of the service: its arguments, the data it sends to update,     *)
(* where it stands, the rows its select returned, the outcome of its       *)
(* update, its result; and, for the properties, what its first getProfile  *)
(* answered and what it wrote                                              *)
ServiceCall(op, updates, pc) ==
  [op |-> op, updates |-> updates, updateData |-> NoUpdates, pc |-> pc,
   profiles |-> <<>>,
   updated |-> Result(<<>>, <<>>), result |-> Result(<<>>, <<>>),
   lookup |-> NoLookup, inserted |-> 0, wrote |-> FALSE]

(* the Profile table with no call made *)
StoreIdle ==
  [rows |-> {OtherUsersRow}, calls |-> <<>>, cleanups |-> {}, nextId |-> 4]

----------------------------------------------------------------------------
(* Operations *)

(* lastOp records the operation that produced the current state, its      *)
(* argument, the tip selection it started from and, for a commit or a      *)
(* preset click, the text of the committed or cleared field before it;     *)
(* amount is the amount a Pay click passed on                              *)
Op(name, text, pct, textBefore) ==
  [op |-> name, text |-> text, pct |-> pct, textBefore |-> textBefore,
   tipBefore |-> selectedTip, customBefore |-> customTip, amount |-> 0]

(* the page as first rendered *)
CalcInit ==
  /\ baseAmount = 200 * Dollar
  /\ baseAmountInput = <<"2", "0", "0", ".", "0", "0">>
  /\ selectedTip = 0
  /\ customTip = <<>>
  /\ customTipDisplay = <<>>
  /\ lastOp = [op |-> "init", text |-> <<>>, pct |-> 0, textBefore |-> <<>>,
               tipBefore |-> 0, customBefore |-> <<>>, amount |-> 0]

Init ==
  /\ CalcInit
  /\ profileCheck = ProfileIdle
  /\ authCall = AuthIdle
  /\ app = AppIdle
  /\ store = StoreIdle

(* a click that always selects, never deselects *)
handleTipSelect_NoToggle(percentage) ==
  /\ selectedTip' = percentage
  /\ customTip' = <<>>
  /\ customTipDisplay' = <<>>
  /\ UNCHANGED <<baseAmount, baseAmountInput>>

(* a click that leaves the custom tip field showing its text *)
handleTipSelect_KeepsDisplay(percentage) ==
  /\ selectedTip' = IF selectedTip = percentage THEN 0 ELSE percentage
  /\ customTip' = <<>>
  /\ UNCHANGED customTipDisplay
  /\ UNCHANGED <<baseAmount, baseAmountInput>>

handleTipSelect(percentage) ==
  /\ selectedTip' = IF selectedTip = percentage THEN 0 ELSE percentage
  /\ customTip' = <<>>
  /\ customTipDisplay' = <<>>
  /\ UNCHANGED <<baseAmount, baseAmountInput>>

ClickTipButton(percentage) ==
  /\ ~tipButtonDisabled
  /\ handleTipSelect(percentage)
  /\ lastOp' = Op("selectPresetTip", <<>>, percentage, customTipDisplay)
  /\ UNCHANGED svcVars

(* a valid custom value that leaves the preset selected *)
handleCustomTipChange_KeepsPreset(value) ==
  LET numericValue == stripNonNumeric(value)
      parsedValue  == parseFloat(numericValue)
  IN /\ IF numericValue = <<>> \/ amountPattern(numericValue)
        THEN /\ customTipDisplay' =
                  IF numericValue # <<>> THEN <<"$">> \o numericValue
                  ELSE <<>>
             /\ IF ~isNaN(parsedValue) /\ parsedValue >= Dollar
                THEN customTip' = numericValue /\ UNCHANGED selectedTip
                ELSE IF numericValue = <<>>
                THEN customTip' = <<>> /\ selectedTip' = 0
                ELSE UNCHANGED <<customTip, selectedTip>>
        ELSE UNCHANGED <<customTipDisplay, customTip, selectedTip>>
     /\ UNCHANGED <<baseAmount, baseAmountInput>>
     /\ lastOp' = Op("setCustomTipText", value, 0, <<>>)
     /\ UNCHANGED svcVars

(* emptied custom text that leaves the preset selection alone *)
handleCustomTipChange_EmptyKeepsPreset(value) ==
  LET numericValue == stripNonNumeric(value)
      parsedValue  == parseFloat(numericValue)
  IN /\ IF numericValue = <<>> \/ amountPattern(numericValue)
        THEN /\ customTipDisplay' =
                  IF numericValue # <<>> THEN <<"$">> \o numericValue
                  ELSE <<>>
             /\ IF ~isNaN(parsedValue) /\ parsedValue >= Dollar
                THEN customTip' = numericValue /\ selectedTip' = 0
                ELSE IF numericValue = <<>>
                THEN customTip' = <<>> /\ UNCHANGED selectedTip
                ELSE UNCHANGED <<customTip, selectedTip>>
        ELSE UNCHANGED <<customTipDisplay, customTip, selectedTip>>
     /\ UNCHANGED <<baseAmount, baseAmountInput>>
     /\ lastOp' = Op("setCustomTipText", value, 0, <<>>)
     /\ UNCHANGED svcVars

(* a custom amount taken as the tip whatever its size *)
handleCustomTipChange_AnyAmount(value) ==
  LET numericValue == stripNonNumeric(value)
      parsedValue  == parseFloat(numericValue)
  IN /\ IF numericValue = <<>> \/ amountPattern(numericValue)
        THEN /\ customTipDisplay' =
                  IF numericValue # <<>> THEN <<"$">> \o numericValue
                  ELSE <<>>
             /\ IF ~isNaN(parsedValue)
                THEN customTip' = numericValue /\ selectedTip' = 0
                ELSE IF numericValue = <<>>
                THEN customTip' = <<>> /\ selectedTip' = 0
                ELSE UNCHANGED <<customTip, selectedTip>>
        ELSE UNCHANGED <<customTipDisplay, customTip, selectedTip>>
     /\ UNCHANGED <<baseAmount, baseAmountInput>>
     /\ lastOp' = Op("setCustomTipText", value, 0, <<>>)
     /\ UNCHANGED svcVars

handleCustomTipChange(value) ==
  LET numericValue == stripNonNumeric(value)
      parsedValue  == parseFloat(numericValue)
  IN /\ IF numericValue = <<>> \/ amountPattern(numericValue)
        THEN /\ customTipDisplay' =
                  IF numericValue # <<>> THEN <<"$">> \o numericValue
                  ELSE <<>>
             /\ IF ~isNaN(parsedValue) /\ parsedValue >= Dollar
                THEN customTip' = numericValue /\ selectedTip' = 0
                ELSE IF numericValue = <<>>
                THEN customTip' = <<>> /\ selectedTip' = 0
                ELSE UNCHANGED <<customTip, selectedTip>>
        ELSE UNCHANGED <<customTipDisplay, customTip, selectedTip>>
     /\ UNCHANGED <<baseAmount, baseAmountInput>>
     /\ lastOp' = Op("setCustomTipText", value, 0, <<>>)
     /\ UNCHANGED svcVars

(* a commit that shows a formatted zero when no custom tip is active *)
handleCustomTipBlur_ShowsZero ==
  /\ IF customTip # <<>>
     THEN LET parsedValue == parseFloat(customTip)
          IN IF parsedValue < Dollar
             THEN /\ customTip' = <<"1", ".", "0", "0">>
                  /\ customTipDisplay' = <<"$", "1", ".", "0", "0">>
             ELSE LET formatted == toFixed2(parsedValue)
                  IN /\ customTip' = formatted
                     /\ customTipDisplay' = <<"$">> \o formatted
     ELSE /\ customTipDisplay' = <<"$", "0", ".", "0", "0">>
          /\ UNCHANGED customTip
  /\ UNCHANGED <<baseAmount, baseAmountInput, selectedTip>>
  /\ lastOp' = Op("commitCustomTip", <<>>, 0, customTipDisplay)
  /\ UNCHANGED svcVars

handleCustomTipBlur ==
  /\ IF customTip # <<>>
     THEN LET parsedValue == parseFloat(customTip)
          IN IF parsedValue < Dollar
             THEN /\ customTip' = <<"1", ".", "0", "0">>
                  /\ customTipDisplay' = <<"$", "1", ".", "0", "0">>
             ELSE LET formatted == toFixed2(parsedValue)
                  IN /\ customTip' = formatted
                     /\ customTipDisplay' = <<"$">> \o formatted
     ELSE /\ customTipDisplay' = <<>>
          /\ UNCHANGED customTip
  /\ UNCHANGED <<baseAmount, baseAmountInput, selectedTip>>
  /\ lastOp' = Op("commitCustomTip", <<>>, 0, customTipDisplay)
  /\ UNCHANGED svcVars

handleBaseAmountChange(value) ==
  LET numericValue == stripNonNumeric(value)
  IN /\ IF numericValue = <<>> \/ amountPattern(numericValue)
        THEN /\ baseAmountInput' = numericValue
             /\ IF numericValue # <<>> /\ ~isNaN(parseFloat(numericValue))
                THEN baseAmount' = parseFloat(numericValue)
                ELSE IF numericValue = <<>>
                THEN baseAmount' = 0
                ELSE UNCHANGED baseAmount
        ELSE UNCHANGED <<baseAmountInput, baseAmount>>
     /\ UNCHANGED <<selectedTip, customTip, customTipDisplay>>
     /\ lastOp' = Op("setBaseAmountText", value, 0, <<>>)
     /\ UNCHANGED svcVars

(* a commit that formats a value below the minimum instead of clamping it *)
handleBaseAmountBlur_NoClamp ==
  /\ IF baseAmountInput = <<>> \/ isNaN(parseFloat(baseAmountInput))
     THEN /\ baseAmountInput' = <<"1", ".", "0", "0">>
          /\ baseAmount' = Dollar
     ELSE LET parsedValue == parseFloat(baseAmountInput)
          IN IF FALSE
             THEN /\ baseAmountInput' = <<"1", ".", "0", "0">>
                  /\ baseAmount' = Dollar
             ELSE LET formatted == toFixed2(parsedValue)
                  IN /\ baseAmountInput' = formatted
                     /\ baseAmount' = parseFloat(formatted)
  /\ UNCHANGED <<selectedTip, customTip, customTipDisplay>>
  /\ lastOp' = Op("commitBaseAmount", <<>>, 0, baseAmountInput)
  /\ UNCHANGED svcVars

(* a commit that leaves empty or unparseable text as it is *)
handleBaseAmountBlur_NoReset ==
  /\ IF baseAmountInput = <<>> \/ isNaN(parseFloat(baseAmountInput))
     THEN UNCHANGED <<baseAmountInput, baseAmount>>
     ELSE LET parsedValue == parseFloat(baseAmountInput)
          IN IF parsedValue < Dollar
             THEN /\ baseAmountInput' = <<"1", ".", "0", "0">>
                  /\ baseAmount' = Dollar
             ELSE LET formatted == toFixed2(parsedValue)
                  IN /\ baseAmountInput' = formatted
                     /\ baseAmount' = parseFloat(formatted)
  /\ UNCHANGED <<selectedTip, customTip, customTipDisplay>>
  /\ lastOp' = Op("commitBaseAmount", <<>>, 0, baseAmountInput)
  /\ UNCHANGED svcVars

(* a commit that keeps the text as typed *)
handleBaseAmountBlur_NoFormat ==
  /\ IF baseAmountInput = <<>> \/ isNaN(parseFloat(baseAmountInput))
     THEN /\ baseAmountInput' = <<"1", ".", "0", "0">>
          /\ baseAmount' = Dollar
     ELSE LET parsedValue == parseFloat(baseAmountInput)
          IN IF parsedValue < Dollar
             THEN /\ baseAmountInput' = <<"1", ".", "0", "0">>
                  /\ baseAmount' = Dollar
             ELSE LET formatted == toFixed2(parsedValue)
                  IN /\ UNCHANGED baseAmountInput
                     /\ baseAmount' = parseFloat(formatted)
  /\ UNCHANGED <<selectedTip, customTip, customTipDisplay>>
  /\ lastOp' = Op("commitBaseAmount", <<>>, 0, baseAmountInput)
  /\ UNCHANGED svcVars

(* a commit that clamps the text but forgets the numeric amount *)
handleBaseAmountBlur_ClampTextOnly ==
  /\ IF baseAmountInput = <<>> \/ isNaN(parseFloat(baseAmountInput))
     THEN /\ baseAmountInput' = <<"1", ".", "0", "0">>
          /\ baseAmount' = Dollar
     ELSE LET parsedValue == parseFloat(baseAmountInput)
          IN IF parsedValue < Dollar
             THEN /\ baseAmountInput' = <<"1", ".", "0", "0">>
                  /\ UNCHANGED baseAmount
             ELSE LET formatted == toFixed2(parsedValue)
                  IN /\ baseAmountInput' = formatted
                     /\ baseAmount' = parseFloat(formatted)
  /\ UNCHANGED <<selectedTip, customTip, customTipDisplay>>
  /\ lastOp' = Op("commitBaseAmount", <<>>, 0, baseAmountInput)
  /\ UNCHANGED svcVars

handleBaseAmountBlur ==
  /\ IF baseAmountInput = <<>> \/ isNaN(parseFloat(baseAmountInput))
     THEN /\ baseAmountInput' = <<"1", ".", "0", "0">>
          /\ baseAmount' = Dollar
     ELSE LET parsedValue == parseFloat(baseAmountInput)
          IN IF parsedValue < Dollar
             THEN /\ baseAmountInput' = <<"1", ".", "0", "0">>
                  /\ baseAmount' = Dollar
             ELSE LET formatted == toFixed2(parsedValue)
                  IN /\ baseAmountInput' = formatted
                     /\ baseAmount' = parseFloat(formatted)
  /\ UNCHANGED <<selectedTip, customTip, customTipDisplay>>
  /\ lastOp' = Op("commitBaseAmount", <<>>, 0, baseAmountInput)
  /\ UNCHANGED svcVars

(* console.log('Proceeding to Stripe Checkout with amount:', ...) *)
handlePayNow ==
  /\ lastOp' = [Op("payNow", <<>>, 0, <<>>) EXCEPT !.amount = getTotalAmount]
  /\ UNCHANGED calc
  /\ UNCHANGED svcVars

ClickPayButton ==
  /\ ~payButtonDisabled
  /\ handlePayNow

Next ==
  \/ \E value \in InputTexts : handleBaseAmountChange(value)
  \/ handleBaseAmountBlur
  \/ \E percentage \in tipPercentages : ClickTipButton(percentage)
  \/ \E value \in InputTexts : handleCustomTipChange(value)
  \/ handleCustomTipBlur
  \/ ClickPayButton

Spec == Init /\ [][Next]_vars

----------------------------------------------------------------------------
(* ProfileService.isProfileComplete applied to a loaded profile *)

InitProfile ==
  /\ CalcInit
  /\ authCall = AuthIdle
  /\ app = AppIdle
  /\ store = StoreIdle
  /\ \E profile \in UserProfiles :
       profileCheck = [profile |-> profile, done |-> FALSE,
                       complete |-> FALSE]

CheckProfileComplete ==
  /\ ~profileCheck.done
  /\ profileCheck' = [profileCheck EXCEPT
                        !.done = TRUE,
                        !.complete = isProfileComplete(profileCheck.profile)]
  /\ UNCHANGED <<calc, lastOp, authCall, app, store>>

NextProfile == CheckProfileComplete

SpecProfile == InitProfile /\ [][NextProfile]_vars

----------------------------------------------------------------------------
(* AuthService: one call, from its validation to its return *)

(* the call returns result; outcome remembers what ended it *)
Return(call, outcome, result) ==
  [call EXCEPT !.pc = "returned", !.outcome = outcome, !.result = result]

(* the call passes validation and awaits the provider *)
AwaitProvider(call) == [call EXCEPT !.pc = "provider"]

Call(op, email, password, name) ==
  [AuthIdle EXCEPT !.op = op, !.email = email, !.password = password,
                   !.name = name]

signUp(email, password, name) ==
  /\ authCall.pc = "idle"
  /\ LET call == Call("signUp", email, password, name) IN
       authCall' =
         IF ~validateEmail(email)
         THEN Return(call, "validation",
                Failure("signUp",
                  [message |-> "Please enter a valid email address",
                   code |-> "INVALID_EMAIL"]))
         ELSE IF ~validatePassword(password)
         THEN Return(call, "validation",
                Failure("signUp",
                  [message |-> "Password must be at least 8 characters with uppercase, lowercase, number, and special character",
                   code |-> "WEAK_PASSWORD"]))
         ELSE IF Len(trim(name)) < 2
         THEN Return(call, "validation",
                Failure("signUp",
                  [message |-> "Name must be at least 2 characters long",
                   code |-> "INVALID_NAME"]))
         ELSE AwaitProvider(call)
  /\ UNCHANGED <<calc, lastOp, profileCheck, app, store>>

signIn(email, password) ==
  /\ authCall.pc = "idle"
  /\ LET call == Call("signIn", email, password, <<>>) IN
       authCall' =
         IF ~validateEmail(email)
         THEN Return(call, "validation",
                Failure("signIn",
                  [message |-> "Please enter a valid email address",
                   code |-> "INVALID_EMAIL"]))
         ELSE IF Len(password) < 6
         THEN Return(call, "validation",
                Failure("signIn",
                  [message |-> "Password is required",
                   code |-> "INVALID_PASSWORD"]))
         ELSE AwaitProvider(call)
  /\ UNCHANGED <<calc, lastOp, profileCheck, app, store>>

signOut ==
  /\ authCall.pc = "idle"
  /\ authCall' = AwaitProvider(Call("signOut", <<>>, <<>>, <<>>))
  /\ UNCHANGED <<calc, lastOp, profileCheck, app, store>>

resetPassword(email) ==
  /\ authCall.pc = "idle"
  /\ LET call == Call("resetPassword", email, <<>>, <<>>) IN
       authCall' =
         IF ~validateEmail(email)
         THEN Return(call, "validation",
                Failure("resetPassword",
                  [message |-> "Please enter a valid email address",
                   code |-> "INVALID_EMAIL"]))
         ELSE AwaitProvider(call)
  /\ UNCHANGED <<calc, lastOp, profileCheck, app, store>>

getSession ==
  /\ authCall.pc = "idle"
  /\ authCall' = AwaitProvider(Call("getSession", <<>>, <<>>, <<>>))
  /\ UNCHANGED <<calc, lastOp, profileCheck, app, store>>

getUser ==
  /\ authCall.pc = "idle"
  /\ authCall' = AwaitProvider(Call("getUser", <<>>, <<>>, <<>>))
  /\ UNCHANGED <<calc, lastOp, profileCheck, app, store>>

(* the awaited provider call settles: the rest of the try block, or the    *)
(* catch block when the call or the storage cleanup of signOut throws      *)
ProviderSettles(outcome, storageThrows) ==
  /\ authCall.pc = "provider"
  /\ LET op == authCall.op IN
       authCall' =
         IF outcome.kind = "throws"
         THEN Return(authCall, "exception", Failure(op, serviceError(op)))
         ELSE IF outcome.kind = "error"
         THEN Return(authCall, "provider",
                Failure(op, providerError(outcome)))
         ELSE IF op = "signUp" /\ outcome.user = "value"
         THEN [authCall EXCEPT !.pc = "createProfile"]
         ELSE IF op = "signOut" /\ storageThrows
         THEN Return(authCall, "exception", Failure(op, serviceError(op)))
         ELSE Return(authCall, "data",
                Success(op, outcome.user, outcome.session))
  /\ UNCHANGED <<calc, lastOp, profileCheck, app, store>>

(* profileService.createProfile settles; signUp succeeds either way *)
CreateProfileSettles(profileError) ==
  /\ authCall.pc = "createProfile"
  /\ authCall' = Return(authCall,
                        IF profileError THEN "profileError" ELSE "data",
                        Success("signUp", "value", "null"))
  /\ UNCHANGED <<calc, lastOp, profileCheck, app, store>>

NextAuth ==
  \/ \E email \in Emails, password \in Passwords, name \in Names :
       signUp(email, password, name)
  \/ \E email \in Emails, password \in Passwords : signIn(email, password)
  \/ signOut
  \/ \E email \in Emails : resetPassword(email)
  \/ getSession
  \/ getUser
  \/ \E outcome \in ProviderOutcomes, storageThrows \in BOOLEAN :
       ProviderSettles(outcome, storageThrows)
  \/ \E profileError \in BOOLEAN : CreateProfileSettles(profileError)

SpecAuth == Init /\ [][NextAuth]_vars

----------------------------------------------------------------------------
(* App: the component from mount on *)

(* the handlers of the page can run once it is past the loading screen *)
Rendered == ~app.isLoading

(* the loadUserProfile calls that have not settled *)
PendingLoads(a) == a.pendingLoads + a.pendingReloads

CanRerun(view) == Reruns(view) => Len(app.effects) < MaxEffectRuns

(* loadUserProfile up to its await of getOrCreateProfile *)
startLoadUserProfile(a) ==
  [a EXCEPT !.isProfileLoading = TRUE, !.pendingLoads = @ + 1]

(* the clearing of all user data on logout or session end *)
clearUserData(a) ==
  [a EXCEPT !.session = "null", !.user = "null", !.userProfile = <<>>,
            !.isProfileComplete = FALSE, !.showProfileCompletion = FALSE,
            !.isAuthenticated = FALSE, !.isProfileLoading = FALSE,
            !.isAuthModalOpen = TRUE]

(* the first render: the auth effect runs and awaits getSession *)
InitApp ==
  /\ CalcInit
  /\ profileCheck = ProfileIdle
  /\ authCall = AuthIdle
  /\ store = StoreIdle
  /\ \E profile \in {IncompleteProfile, CompleteProfile} :
       app = [AppIdle EXCEPT !.effects = <<EffectRun("dashboard")>>,
                             !.storedProfile = profile]

(* a finally block that leaves the loading screen up *)
finishLoading_Never(a) == a

(* the finally block of initializeAuth *)
finishLoading(a) == [a EXCEPT !.isLoading = FALSE]

(* getSession of effect run i settles: the rest of initializeAuth *)
InitializeAuthResumes(i, hasSession) ==
  /\ i \in 1..Len(app.effects)
  /\ app.effects[i].pc = "getSession"
  /\ hasSession => PendingLoads(app) < MaxPendingLoads
  /\ LET run == app.effects[i]
         branch ==
           IF hasSession
           THEN startLoadUserProfile(
                  [app EXCEPT !.session = "session", !.user = "user",
                              !.isAuthenticated = TRUE])
           ELSE [app EXCEPT !.session = "null", !.user = "null",
                            !.userProfile = <<>>,
                            !.isProfileComplete = FALSE,
                            !.showProfileCompletion = FALSE,
                            !.isAuthenticated = FALSE,
                            !.isAuthModalOpen =
                               IF run.onDashboard THEN TRUE ELSE @]
     IN app' = Commit(
          finishLoading(
            [branch EXCEPT !.effects[i] = [run EXCEPT !.pc = "done",
                                             !.onDashboard = FALSE,
                                             !.authSubscription = "live"]]),
          OtherOp)
  /\ UNCHANGED <<calc, lastOp, profileCheck, authCall, store>>

(* the callback of one live subscription *)
onAuthStateChangeCallback(a, hasSession) ==
  IF hasSession
  THEN startLoadUserProfile(
         [a EXCEPT !.session = "session", !.user = "user",
                   !.isAuthenticated = TRUE, !.isAuthModalOpen = FALSE])
  ELSE setCurrentView(clearUserData(a), "dashboard")

RECURSIVE notifySubscribers(_, _, _)
notifySubscribers(a, n, hasSession) ==
  IF n = 0 THEN a
  ELSE notifySubscribers(onAuthStateChangeCallback(a, hasSession), n - 1,
                         hasSession)

(* an auth event reaches every live subscription *)
AuthStateChange(hasSession) ==
  /\ LiveSubscriptions(app) # {}
  /\ hasSession =>
       PendingLoads(app) + Cardinality(LiveSubscriptions(app))
         <= MaxPendingLoads
  /\ ~hasSession => CanRerun("dashboard")
  /\ app' = Commit(
       [notifySubscribers(app, Cardinality(LiveSubscriptions(app)),
                          hasSession)
          EXCEPT !.cleared = IF hasSession THEN FALSE ELSE TRUE],
       AppOp("onAuthStateChange", hasSession))
  /\ UNCHANGED <<calc, lastOp, profileCheck, authCall, store>>

(* the rest of loadUserProfile once getOrCreateProfile has settled *)
resumeLoadUserProfile(a, loaded) ==
  [a EXCEPT
     !.userProfile = IF loaded THEN <<a.storedProfile>> ELSE <<>>,
     !.isProfileComplete =
        IF loaded THEN isProfileComplete(a.storedProfile) ELSE FALSE,
     !.showProfileCompletion =
        IF loaded /\ ~isProfileComplete(a.storedProfile) THEN TRUE ELSE @,
     !.isProfileLoading = FALSE]

(* a loadUserProfile started by initializeAuth or the auth listener ends *)
LoadUserProfileResumes(loaded) ==
  /\ app.pendingLoads > 0
  /\ app' = Commit(
       [resumeLoadUserProfile(app, loaded) EXCEPT !.pendingLoads = @ - 1],
       OtherOp)
  /\ UNCHANGED <<calc, lastOp, profileCheck, authCall, store>>

(* handleProfileCompletion up to its await of loadUserProfile, with the   *)
(* _user of the render it was taken from                                   *)
handleProfileCompletion(a, user) ==
  IF user # "null"
  THEN [a EXCEPT !.isProfileLoading = TRUE, !.pendingReloads = @ + 1]
  ELSE [a EXCEPT !.showProfileCompletion = FALSE]

(* the loadUserProfile awaited by handleProfileCompletion ends, and the   *)
(* handler closes the completion modal                                     *)
HandleProfileCompletionResumes(loaded) ==
  /\ app.pendingReloads > 0
  /\ app' = Commit(
       [resumeLoadUserProfile(app, loaded) EXCEPT
          !.pendingReloads = @ - 1, !.showProfileCompletion = FALSE],
       OtherOp)
  /\ UNCHANGED <<calc, lastOp, profileCheck, authCall, store>>

(* ProfileCompletionModal.handleSubmit up to its await of the update *)
ProfileCompletionSubmit ==
  /\ Rendered
  /\ app.userProfile # <<>>
  /\ app.showProfileCompletion
  /\ app.submitting = "none"
  /\ app' = Commit([app EXCEPT !.submitting = app.user],
                   OtherOp)
  /\ UNCHANGED <<calc, lastOp, profileCheck, authCall, store>>

(* updateProfileWithValidation settles: onComplete() unless it failed *)
ProfileCompletionSubmitResumes(updated) ==
  /\ app.submitting # "none"
  /\ updated /\ app.submitting # "null" =>
       PendingLoads(app) < MaxPendingLoads
  /\ app' = Commit(
       IF updated
       THEN [handleProfileCompletion(
               [app EXCEPT !.storedProfile = CompleteProfile],
               app.submitting)
             EXCEPT !.submitting = "none"]
       ELSE [app EXCEPT !.submitting = "none"],
       OtherOp)
  /\ UNCHANGED <<calc, lastOp, profileCheck, authCall, store>>

handleNavigation(view) ==
  /\ Rendered
  /\ app.isMenuOpen
  /\ CanRerun(view)
  /\ app' = Commit(
       IF ~app.isAuthenticated /\ view = "dashboard"
       THEN [app EXCEPT !.isAuthModalOpen = TRUE]
       ELSE IF /\ app.isAuthenticated
               /\ ~app.isProfileComplete
               /\ app.showProfileCompletion
       THEN app
       ELSE [setCurrentView(app, view) EXCEPT !.isMenuOpen = FALSE],
       AppOp("handleNavigation", FALSE))
  /\ UNCHANGED <<calc, lastOp, profileCheck, authCall, store>>

(* the menu button *)
ToggleMenu ==
  /\ Rendered
  /\ app' = Commit([app EXCEPT !.isMenuOpen = ~@],
                   OtherOp)
  /\ UNCHANGED <<calc, lastOp, profileCheck, authCall, store>>

handleClickOutside ==
  /\ Rendered
  /\ app' = Commit([app EXCEPT !.isMenuOpen = FALSE],
                   OtherOp)
  /\ UNCHANGED <<calc, lastOp, profileCheck, authCall, store>>

(* the Sign In button *)
SignInClick ==
  /\ Rendered
  /\ ~app.isAuthenticated
  /\ app' = Commit([app EXCEPT !.isAuthModalOpen = TRUE],
                   OtherOp)
  /\ UNCHANGED <<calc, lastOp, profileCheck, authCall, store>>

(* an onClose that closes the authentication modal *)
AuthModalOnClose_Closes ==
  /\ Rendered
  /\ app.isAuthModalOpen
  /\ app' = Commit([app EXCEPT !.isAuthModalOpen = FALSE],
                   AppOp("onClose", FALSE))
  /\ UNCHANGED <<calc, lastOp, profileCheck, authCall, store>>

(* the onClose handed to AuthModal: an empty function *)
AuthModalOnClose ==
  /\ Rendered
  /\ app.isAuthModalOpen
  /\ app' = Commit(app, AppOp("onClose", FALSE))
  /\ UNCHANGED <<calc, lastOp, profileCheck, authCall, store>>

(* onLogin, called by AuthModal after a sign-in that succeeded *)
handleLogin ==
  /\ Rendered
  /\ app.isAuthModalOpen
  /\ app' = Commit(app, OtherOp)
  /\ UNCHANGED <<calc, lastOp, profileCheck, authCall, store>>

handleLogoutClick ==
  /\ Rendered
  /\ app.isAuthenticated
  /\ app' = Commit([app EXCEPT !.showLogoutConfirmation = TRUE],
                   OtherOp)
  /\ UNCHANGED <<calc, lastOp, profileCheck, authCall, store>>

(* handleLogoutConfirm up to its await of signOut; what follows the await *)
(* changes no state                                                        *)
handleLogoutConfirm ==
  /\ Rendered
  /\ app.showLogoutConfirmation
  /\ CanRerun("dashboard")
  /\ app' = Commit(
       setCurrentView(
         [clearUserData(app) EXCEPT !.showLogoutConfirmation = FALSE,
                                    !.cleared = TRUE],
         "dashboard"),
       OtherOp)
  /\ UNCHANGED <<calc, lastOp, profileCheck, authCall, store>>

handleLogoutCancel ==
  /\ Rendered
  /\ app.showLogoutConfirmation
  /\ app' = Commit([app EXCEPT !.showLogoutConfirmation = FALSE],
                   OtherOp)
  /\ UNCHANGED <<calc, lastOp, profileCheck, authCall, store>>

NextApp ==
  \/ \E i \in 1..MaxEffectRuns, hasSession \in BOOLEAN :
       InitializeAuthResumes(i, hasSession)
  \/ \E hasSession \in BOOLEAN : AuthStateChange(hasSession)
  \/ \E loaded \in BOOLEAN : LoadUserProfileResumes(loaded)
  \/ \E loaded \in BOOLEAN : HandleProfileCompletionResumes(loaded)
  \/ ProfileCompletionSubmit
  \/ \E updated \in BOOLEAN : ProfileCompletionSubmitResumes(updated)
  \/ \E view \in Views : handleNavigation(view)
  \/ ToggleMenu
  \/ handleClickOutside
  \/ SignInClick
  \/ AuthModalOnClose
  \/ handleLogin
  \/ handleLogoutClick
  \/ handleLogoutConfirm
  \/ handleLogoutCancel

SpecApp == InitApp /\ [][NextApp]_vars

(* every pending getSession of the auth effect settles *)
SpecAppLive ==
  /\ InitApp
  /\ [][NextApp]_vars
  /\ WF_vars(\E i \in 1..MaxEffectRuns, hasSession \in BOOLEAN :
               InitializeAuthResumes(i, hasSession))
----------------------------------------------------------------------------
(* ProfileService operations; every await is a step of its own, so calls  *)
(* interleave at the database                                              *)

InitStore ==
  /\ CalcInit
  /\ profileCheck = ProfileIdle
  /\ authCall = AuthIdle
  /\ app = AppIdle
  /\ \E rows \in InitialTables : store = [StoreIdle EXCEPT !.rows = rows]

Calling(k, pc) == k <= Len(store.calls) /\ store.calls[k].pc = pc

CanCall == Len(store.calls) < MaxCalls

(* the store with one more call under way *)
Started(call) == [store EXCEPT !.calls = Append(@, call)]

(* the call returns: its locals are gone, its result stays *)
Returns(call, result) ==
  [call EXCEPT !.pc = "done", !.result = result, !.profiles = <<>>,
               !.updated = Result(<<>>, <<>>), !.updateData = NoUpdates]

(* what the database answers to a request *)
DatabaseError == [message |-> "db error", code |-> "XX000"]

(* getProfile's answer for the rows its select returned *)
getProfileFound(profiles) ==
  IF profiles = <<>>
  THEN Result(<<>>, <<ServiceError("No profile found", Some("PGRST116"))>>)
  ELSE Result(<<profiles[1]>>, <<>>)

getProfileFailed ==
  Result(<<>>, <<ServiceError("Failed to load profile: db error",
                              Some(DatabaseError.code))>>)

getProfileThrew ==
  Result(<<>>,
         <<ServiceError("An unexpected error occurred while loading profile",
                        None)>>)

getProfile(rows, userId, outcome) ==
  IF outcome = "rows" THEN getProfileFound(profilesOf(rows, userId))
  ELSE IF outcome = "error" THEN getProfileFailed
  ELSE getProfileThrew

(* the fire-and-forget delete getProfile issues when it sees duplicates *)
scheduledCleanup(rows, userId, outcome) ==
  IF outcome = "rows" /\ Len(profilesOf(rows, userId)) > 1
  THEN {duplicateIds(profilesOf(rows, userId))}
  ELSE {}

createProfile ==
  /\ CanCall
  /\ store' = Started(ServiceCall("createProfile", NoUpdates, "exists"))
  /\ UNCHANGED <<calc, lastOp, profileCheck, authCall, app>>

(* getOrCreateProfile that creates the profile after any failed lookup *)
getOrCreateProfileContinues_AnyError(call, got) ==
  IF got.profile # <<>> THEN Returns(call, Result(got.profile, <<>>))
  ELSE [call EXCEPT !.pc = "exists"]

(* getOrCreateProfile after its getProfile *)
getOrCreateProfileContinues(call, got) ==
  IF got.profile # <<>> THEN Returns(call, Result(got.profile, <<>>))
  ELSE IF got.error[1].code = Some("PGRST116")
  THEN [call EXCEPT !.pc = "exists"]
  ELSE Returns(call, Result(<<>>, got.error))

getOrCreateProfile ==
  /\ CanCall
  /\ store' = Started(ServiceCall("getOrCreateProfile", NoUpdates,
                                  "lookup"))
  /\ UNCHANGED <<calc, lastOp, profileCheck, authCall, app>>

(* the getProfile of getOrCreateProfile answers *)
GetOrCreateLookupSettles(k, outcome) ==
  /\ Calling(k, "lookup")
  /\ LET got == getProfile(store.rows, UserId, outcome)
         seen == [store.calls[k] EXCEPT
                    !.lookup = [kind |-> outcome, result |-> got]]
     IN store' = [store EXCEPT
                    !.calls[k] = getOrCreateProfileContinues(seen, got),
                    !.cleanups =
                       @ \cup scheduledCleanup(store.rows, UserId, outcome)]
  /\ UNCHANGED <<calc, lastOp, profileCheck, authCall, app>>

(* the getProfile of createProfile answers *)
CreateProfileLookupSettles(k, outcome) ==
  /\ Calling(k, "exists")
  /\ LET got == getProfile(store.rows, UserId, outcome)
         call == store.calls[k]
     IN store' = [store EXCEPT
                    !.calls[k] =
                       IF got.profile # <<>>
                       THEN Returns(call, Result(got.profile, <<>>))
                       ELSE [call EXCEPT !.pc = "insert"],
                    !.cleanups =
                       @ \cup scheduledCleanup(store.rows, UserId, outcome)]
  /\ UNCHANGED <<calc, lastOp, profileCheck, authCall, app>>

(* the insert of createProfile answers *)
InsertSettles(k, inserted) ==
  /\ Calling(k, "insert")
  /\ LET call == store.calls[k]
         row == ProfileRow(store.nextId, UserId, String(<<>>))
     IN IF inserted
        THEN store' = [store EXCEPT
                         !.rows = @ \cup {row},
                         !.nextId = @ + 1,
                         !.calls[k] =
                            [Returns(call, Result(<<row>>, <<>>)) EXCEPT
                               !.inserted = @ + 1, !.wrote = TRUE]]
        ELSE store' = [store EXCEPT
                         !.calls[k] =
                            Returns(call,
                                   Result(<<>>,
                                          <<ServiceError(
                                              "Failed to create profile",
                                              Some(DatabaseError.code))>>))]
  /\ UNCHANGED <<calc, lastOp, profileCheck, authCall, app>>

updateProfile(updates) ==
  /\ CanCall
  /\ store' = Started([ServiceCall("updateProfile", updates, "fetch") EXCEPT
                         !.updateData = allowedUpdates(updates)])
  /\ UNCHANGED <<calc, lastOp, profileCheck, authCall, app>>

updateProfileWithValidation(updates) ==
  LET validationError == validateProfileData(updates)
      call == ServiceCall("updateProfileWithValidation", updates, "fetch")
  IN /\ CanCall
     /\ store' =
          IF validationError # <<>>
          THEN Started(Returns(call, Result(<<>>, validationError)))
          ELSE Started([call EXCEPT
                          !.updateData =
                             allowedUpdates(sanitizedUpdates(updates))])
     /\ UNCHANGED <<calc, lastOp, profileCheck, authCall, app>>

(* the select of updateProfile answers *)
FetchSettles(k, fetched) ==
  /\ Calling(k, "fetch")
  /\ LET call == store.calls[k]
         existingProfiles == profilesOf(store.rows, UserId)
     IN store' = [store EXCEPT !.calls[k] =
          IF ~fetched
          THEN Returns(call,
                      Result(<<>>,
                             <<ServiceError(
                                 "Failed to fetch profile: db error",
                                 Some(DatabaseError.code))>>))
          ELSE IF existingProfiles = <<>>
          THEN Returns(call,
                      Result(<<>>,
                             <<ServiceError("No profile found for user",
                                            Some("NO_PROFILE"))>>))
          ELSE [call EXCEPT !.pc = "update",
                            !.profiles = existingProfiles]]
  /\ UNCHANGED <<calc, lastOp, profileCheck, authCall, app>>

(* the update of updateProfile answers: it fails when the database fails  *)
(* or when the row is no longer there                                      *)
UpdateSettles(k, succeeds) ==
  /\ Calling(k, "update")
  /\ LET call == store.calls[k]
         profileToUpdate == call.profiles[1]
         matched == {r \in store.rows : r.id = profileToUpdate.id}
         hit == succeeds /\ matched # {}
         row == CHOOSE r \in matched : TRUE
         data == applyUpdate(row, call.updateData)
         updated ==
           IF hit THEN Result(<<data>>, <<>>)
           ELSE Result(<<>>,
                       <<ServiceError("Failed to update profile: db error",
                                      Some(DatabaseError.code))>>)
         next == [call EXCEPT !.updated = updated,
                              !.wrote = @ \/ hit]
     IN store' = [store EXCEPT
                    !.rows = IF hit THEN (@ \ matched) \cup {data} ELSE @,
                    !.calls[k] =
                       IF Len(call.profiles) > 1
                       THEN [next EXCEPT !.pc = "delete"]
                       ELSE Returns(next, updated)]
  /\ UNCHANGED <<calc, lastOp, profileCheck, authCall, app>>

(* the delete of the duplicates in updateProfile answers *)
DeleteDuplicatesSettles(k, deleted) ==
  /\ Calling(k, "delete")
  /\ LET call == store.calls[k]
         gone == {r \in store.rows : r.id \in duplicateIds(call.profiles)}
     IN store' = [store EXCEPT
                    !.rows = IF deleted THEN @ \ gone ELSE @,
                    !.calls[k] =
                       Returns([call EXCEPT
                                  !.wrote = @ \/ (deleted /\ gone # {})],
                               call.updated)]
  /\ UNCHANGED <<calc, lastOp, profileCheck, authCall, app>>

(* a delete that getProfile left behind reaches the database *)
CleanupSettles(ids) ==
  /\ ids \in store.cleanups
  /\ store' = [store EXCEPT !.rows = {r \in @ : r.id \notin ids},
                            !.cleanups = @ \ {ids}]
  /\ UNCHANGED <<calc, lastOp, profileCheck, authCall, app>>

NextStore ==
  \/ createProfile
  \/ getOrCreateProfile
  \/ \E updates \in DirectUpdates : updateProfile(updates)
  \/ \E updates \in FormUpdates : updateProfileWithValidation(updates)
  \/ \E k \in 1..MaxCalls, outcome \in {"rows", "error", "throws"} :
       GetOrCreateLookupSettles(k, outcome)
  \/ \E k \in 1..MaxCalls, outcome \in {"rows", "error", "throws"} :
       CreateProfileLookupSettles(k, outcome)
  \/ \E k \in 1..MaxCalls, inserted \in BOOLEAN : InsertSettles(k, inserted)
  \/ \E k \in 1..MaxCalls, fetched \in BOOLEAN : FetchSettles(k, fetched)
  \/ \E k \in 1..MaxCalls, succeeds \in BOOLEAN : UpdateSettles(k, succeeds)
  \/ \E k \in 1..MaxCalls, deleted \in BOOLEAN :
       DeleteDuplicatesSettles(k, deleted)
  \/ \E ids \in SUBSET (2..(3 + MaxCalls)) : CleanupSettles(ids)

SpecStore == InitStore /\ [][NextStore]_vars


----------------------------------------------------------------------------
(* Properties *)

Text_1_00   == <<"1", ".", "0", "0">>
Text_200_00 == <<"2", "0", "0", ".", "0", "0">>
Text_75_50  == <<"7", "5", ".", "5", "0">>
Text_12_30  == <<"1", "2", ".", "3", "0">>

(* C1: a selected preset percentage and an active custom tip never hold at *)
(* the same time.                                                          *)
C1_AtMostOneTipSource == ~(selectedTip # 0 /\ customTip # <<>>)

(* a custom value was entered while a preset was selected *)
C1_Witness ==
  /\ lastOp.op = "setCustomTipText"
  /\ lastOp.tipBefore # 0
  /\ customTip # <<>>
  /\ selectedTip = 0

(* C2: subtotal is the numeric base amount; tip is the custom amount when  *)
(* a custom tip is active, else base x preset / 100 (0 with no preset);    *)
(* total = subtotal + tip; 200.00 with preset 15 gives 200.00/30.00/230.00 *)
(* and 75.50 with custom tip 12.30 gives 75.50/12.30/87.80.                *)
C2_DerivedAmounts ==
  LET d == derivedAmounts
  IN /\ d.subtotal = baseAmount
     /\ customTip # <<>> => d.tip = parseFloat(customTip)
     /\ customTip = <<>> /\ selectedTip # 0 =>
          d.tip * 100 = baseAmount * selectedTip
     /\ customTip = <<>> /\ selectedTip = 0 => d.tip = 0
     /\ d.total = d.subtotal + d.tip
     /\ (baseAmountInput = Text_200_00 /\ selectedTip = 15 /\ customTip = <<>>)
          => d = [subtotal |-> 200 * Dollar, tip |-> 30 * Dollar,
                  total |-> 230 * Dollar]
     /\ (baseAmountInput = Text_75_50 /\ customTip = Text_12_30)
          => d = [subtotal |-> 7550 * 100, tip |-> 1230 * 100,
                  total |-> 8780 * 100]

(* base 200.00 with preset 15 selected *)
C2_Witness ==
  /\ baseAmountInput = Text_200_00
  /\ selectedTip = 15
  /\ customTip = <<>>
  /\ derivedAmounts.total = 230 * Dollar

(* text made of digits and at most one ".", with at least one digit and at *)
(* most two digits after the "."                                           *)
ValidNumericText(s) ==
  LET dots == {i \in 1..Len(s) : s[i] = "."}
  IN /\ \A i \in 1..Len(s) : s[i] \in Digits \cup {"."}
     /\ Cardinality(dots) <= 1
     /\ \E i \in 1..Len(s) : s[i] \in Digits
     /\ \A i \in dots : Len(s) - i <= 2

round2(x) == ((x + 50) \div 100) * 100

(* the amounts are parseable numbers: not NaN, not negative *)
AmountsAreNumbers ==
  LET d == derivedAmounts
  IN /\ ~isNaN(d.subtotal) /\ d.subtotal >= 0
     /\ ~isNaN(d.tip) /\ d.tip >= 0
     /\ ~isNaN(d.total) /\ d.total >= 0

(* C3 as stated: in every state, also between keystrokes, the exposed      *)
(* subtotal is a number not below 1.00 and the tip is 0 or a valid amount. *)
C3_AlwaysValidState ==
  AmountsAreNumbers /\ derivedAmounts.subtotal >= Dollar

(* C3 amended: the exposed amounts are always numbers (never unparseable   *)
(* or negative); the subtotal is not below 1.00 initially and right after  *)
(* commitBaseAmount(), but between keystrokes, before a commit, it can be  *)
(* anything from 0 up.                                                     *)
C3_ValidAfterCommit ==
  /\ AmountsAreNumbers
  /\ lastOp.op \in {"init", "commitBaseAmount"} =>
       derivedAmounts.subtotal >= Dollar

(* a commit of text below the minimum *)
C3_Witness ==
  /\ lastOp.op = "commitBaseAmount"
  /\ ~isNaN(parseFloat(lastOp.textBefore))
  /\ parseFloat(lastOp.textBefore) < Dollar
  /\ derivedAmounts.subtotal = Dollar

(* C4: right after commitBaseAmount() the numeric base amount is >= 1.00   *)
(* and the text is that amount with exactly two decimals; empty or         *)
(* unparseable text resets both to 1.00.                                   *)
C4_CommitBaseAmount ==
  lastOp.op = "commitBaseAmount" =>
    /\ baseAmount >= Dollar
    /\ baseAmountInput = toFixed2(baseAmount)
    /\ baseAmount % 100 = 0
    /\ (lastOp.textBefore = <<>> \/ lastOp.textBefore = <<".">>) =>
         (baseAmount = Dollar /\ baseAmountInput = Text_1_00)

(* a commit of a bare "." *)
C4_Witness ==
  /\ lastOp.op = "commitBaseAmount"
  /\ lastOp.textBefore = <<".">>
  /\ baseAmountInput = Text_1_00

(* C5: for valid numeric text s with at most two decimals,                 *)
(* setBaseAmountText(s) then commitBaseAmount() gives numeric base amount  *)
(* max(1.00, round2(parse(s))) and text equal to it with two decimals.     *)
C5_SetThenCommit ==
  [][ (/\ lastOp.op = "setBaseAmountText"
       /\ ValidNumericText(lastOp.text)
       /\ lastOp'.op = "commitBaseAmount")
      => /\ baseAmount' = Max2(Dollar, round2(parseFloat(lastOp.text)))
         /\ baseAmountInput' = toFixed2(baseAmount') ]_vars

(* "5." was typed and committed as 5.00 *)
C5_Witness ==
  /\ lastOp.op = "commitBaseAmount"
  /\ lastOp.textBefore = <<"5", ".">>
  /\ baseAmount = 5 * Dollar
  /\ baseAmountInput = <<"5", ".", "0", "0">>

BaseTextParses == ~isNaN(parseFloat(baseAmountInput))

LastCustomText == stripNonNumeric(lastOp.text)

(* the last operation stored custom text that is not a number >= 1.00 *)
EnteredPartialCustomText ==
  /\ lastOp.op = "setCustomTipText"
  /\ LastCustomText # <<>>
  /\ amountPattern(LastCustomText)
  /\ (isNaN(parseFloat(LastCustomText)) \/ parseFloat(LastCustomText) < Dollar)

(* C7: setCustomTipText with text that parses below 1.00 followed by       *)
(* commitCustomTip() leaves the custom tip active with value 1.00 and the  *)
(* display showing 1.00.                                                   *)
C7_CommitClampsCustomTip ==
  [][ (/\ EnteredPartialCustomText
       /\ ~isNaN(parseFloat(LastCustomText))
       /\ lastOp'.op = "commitCustomTip")
      => /\ customTip' = Text_1_00
         /\ customTipDisplay' = <<"$">> \o Text_1_00 ]_vars

(* C8 as stated: setCustomTipText with text whose cleaned form is empty    *)
(* clears the custom tip and leaves the preset selection unchanged.        *)
C8_EmptyTextKeepsPreset ==
  (lastOp.op = "setCustomTipText" /\ LastCustomText = <<>>) =>
    (customTip = <<>> /\ selectedTip = lastOp.tipBefore)

(* C8 amended: setCustomTipText with text whose cleaned form is empty      *)
(* clears the custom tip and its display text and resets the preset        *)
(* selection to none.                                                      *)
C8_EmptyTextClearsTip ==
  (lastOp.op = "setCustomTipText" /\ LastCustomText = <<>>) =>
    (customTip = <<>> /\ customTipDisplay = <<>> /\ selectedTip = 0
     /\ derivedAmounts.tip = 0)

(* emptied custom text entered while a preset was selected *)
C8_Witness ==
  /\ lastOp.op = "setCustomTipText"
  /\ LastCustomText = <<>>
  /\ lastOp.tipBefore # 0
  /\ selectedTip = 0

(* C9: after setCustomTipText with accepted, non-empty text that does not  *)
(* parse to 1.00 or more, the text is in the display and no custom tip is  *)
(* active: the derived tip holds no custom amount.                         *)
C9_PartialTextNotActive ==
  EnteredPartialCustomText =>
    /\ customTipDisplay = <<"$">> \o LastCustomText
    /\ customTip = <<>>
    /\ derivedAmounts.tip = calculateTipAmount(selectedTip)

(* C10: selectPresetTip(p) on the selected preset p returns to no tip      *)
(* (tip = 0), on another or no preset makes p the selected preset, and     *)
(* done twice from a no-preset state ends with no preset.                  *)
C10_PresetToggle ==
  [][ /\ lastOp'.op = "selectPresetTip" =>
           /\ selectedTip = lastOp'.pct =>
                (selectedTip' = 0 /\ derivedAmounts'.tip = 0)
           /\ selectedTip # lastOp'.pct => selectedTip' = lastOp'.pct
      /\ (/\ lastOp.op = "selectPresetTip"
          /\ lastOp.tipBefore = 0
          /\ lastOp'.op = "selectPresetTip"
          /\ lastOp'.pct = lastOp.pct)
         => (selectedTip' = 0 /\ customTip' = <<>>
             /\ derivedAmounts'.tip = 0) ]_vars

(* the selected preset was clicked again *)
C10_Witness ==
  /\ lastOp.op = "selectPresetTip"
  /\ lastOp.tipBefore = lastOp.pct
  /\ selectedTip = 0

Text_5_00 == <<"5", ".", "0", "0">>

(* C11: after selectPresetTip(p) the custom tip value and its display text *)
(* are both empty and the base amount, text and number, is unchanged.      *)
C11_PresetClearsCustomTip ==
  [][ lastOp'.op = "selectPresetTip" =>
        /\ customTip' = <<>>
        /\ customTipDisplay' = <<>>
        /\ baseAmount' = baseAmount
        /\ baseAmountInput' = baseAmountInput ]_vars

(* a preset was clicked while the custom field held text *)
C11_Witness ==
  /\ lastOp.op = "selectPresetTip"
  /\ lastOp.textBefore # <<>>
  /\ customTipDisplay = <<>>
  /\ customTip = <<>>

(* C12: once custom tip text worth 5.00 has been entered, also after       *)
(* preset 10, no preset is selected and the derived tip is 5.00 whatever   *)
(* the base amount, and later setBaseAmountText / commitBaseAmount calls   *)
(* keep it so.                                                             *)
C12_CustomTipReplacesPreset ==
  /\ (customTip # <<>> /\ parseFloat(customTip) = 5 * Dollar) =>
       /\ selectedTip = 0
       /\ derivedAmounts.tip = 5 * Dollar
       /\ derivedAmounts.total = baseAmount + 5 * Dollar
  /\ (/\ lastOp.op \in {"setBaseAmountText", "commitBaseAmount"}
      /\ lastOp.customBefore = Text_5_00) =>
       /\ customTip = Text_5_00
       /\ selectedTip = 0
       /\ derivedAmounts.tip = 5 * Dollar

(* "5.00" was entered in one call while preset 10 was selected *)
C12_Witness ==
  /\ lastOp.op = "setCustomTipText"
  /\ lastOp.text = Text_5_00
  /\ lastOp.tipBefore = 10
  /\ selectedTip = 0
  /\ derivedAmounts.tip = 5 * Dollar

(* C13: commitBaseAmount() twice in a row gives the same text, numeric     *)
(* base amount and tip selection as once.                                  *)
C13_CommitIdempotent ==
  [][ (lastOp.op = "commitBaseAmount" /\ lastOp'.op = "commitBaseAmount")
      => calc' = calc ]_vars

(* a commit of text that an earlier commit had clamped to the minimum *)
C13_Witness ==
  /\ lastOp.op = "commitBaseAmount"
  /\ lastOp.textBefore = Text_1_00
  /\ baseAmountInput = Text_1_00
  /\ baseAmount = Dollar

(* the cleaned text has more than one "." or more than two digits after    *)
(* the decimal point                                                       *)
MalformedText(value) ==
  LET t    == SelectSeq(value, LAMBDA c : c \in Digits \cup {"."})
      dots == {i \in 1..Len(t) : t[i] = "."}
  IN \/ Cardinality(dots) > 1
     \/ \E i \in dots : Len(t) - i > 2

(* C14: setBaseAmountText and setCustomTipText leave the whole calculator  *)
(* state unchanged when the cleaned text has more than one "." or more     *)
(* than two digits after the decimal point.                                *)
C14_MalformedTextIsNoOp ==
  [][ (/\ lastOp'.op \in {"setBaseAmountText", "setCustomTipText"}
       /\ MalformedText(lastOp'.text))
      => calc' = calc ]_vars

(* "1.234" was offered to the base amount field and nothing changed *)
C14_Witness ==
  /\ lastOp.op = "setBaseAmountText"
  /\ lastOp.text = <<"1", ".", "2", "3", "4">>
  /\ baseAmountInput = Text_200_00
  /\ baseAmount = 200 * Dollar

(* only digits and at most one ".", with at most two digits after it *)
WellFormedAmountText(s) ==
  /\ \A i \in 1..Len(s) : s[i] \in Digits \cup {"."}
  /\ \A i, j \in 1..Len(s) : (s[i] = "." /\ s[j] = ".") => i = j
  /\ \A i \in 1..Len(s) : s[i] = "." => Len(s) - i <= 2

(* C15: the base amount text, and the custom tip display text without its  *)
(* leading "$", hold only digits and at most one ".", with at most two     *)
(* digits after the ".".                                                   *)
C15_TextsWellFormed ==
  /\ WellFormedAmountText(baseAmountInput)
  /\ customTipDisplay # <<>> =>
       /\ Head(customTipDisplay) = "$"
       /\ WellFormedAmountText(Tail(customTipDisplay))

(* "$5" was typed into the base amount field and stored as "5" *)
C15_Witness ==
  /\ lastOp.op = "setBaseAmountText"
  /\ lastOp.text = <<"$", "5">>
  /\ baseAmountInput = <<"5">>

(* C16: the numeric base amount is the value of the current text: its      *)
(* parse when it parses, 0 when it is empty, and no number at all (not one *)
(* carried over from earlier text) when it does not parse.                 *)
C16_BaseAmountFollowsText ==
  /\ baseAmountInput = <<>> => baseAmount = 0
  /\ BaseTextParses => baseAmount = parseFloat(baseAmountInput)
  /\ (baseAmountInput # <<>> /\ ~BaseTextParses) => isNaN(baseAmount)

(* C17: commitCustomTip() with a custom tip active leaves the same amount  *)
(* formatted to two decimals as custom tip and shows it in the display;    *)
(* with none active it leaves the display empty; the preset selection and  *)
(* the base amount are unchanged either way.                               *)
C17_CommitCustomTip ==
  [][ lastOp'.op = "commitCustomTip" =>
        /\ IF customTip # <<>>
           THEN /\ customTip' = toFixed2(parseFloat(customTip))
                /\ parseFloat(customTip') = parseFloat(customTip)
                /\ customTipDisplay' = <<"$">> \o customTip'
           ELSE /\ customTip' = <<>>
                /\ customTipDisplay' = <<>>
        /\ selectedTip' = selectedTip
        /\ baseAmount' = baseAmount
        /\ baseAmountInput' = baseAmountInput ]_vars

(* custom tip "5." was committed as 5.00 *)
C17_Witness ==
  /\ lastOp.op = "commitCustomTip"
  /\ lastOp.customBefore = <<"5", ".">>
  /\ customTip = Text_5_00
  /\ customTipDisplay = <<"$">> \o Text_5_00

(* C18: Pay is invoked only where isPayable() is true, and the amount it   *)
(* passes on is derivedAmounts().total of the state it is invoked in.      *)
C18_PayOnlyWhenPayable ==
  lastOp.op = "payNow" =>
    /\ isValidPayment
    /\ baseAmount >= Dollar
    /\ lastOp.amount = derivedAmounts.total
    /\ lastOp.amount = derivedAmounts.subtotal + derivedAmounts.tip

(* Pay was clicked with base 200.00 and preset 15: 230.00 passed on *)
C18_Witness ==
  /\ lastOp.op = "payNow"
  /\ selectedTip = 15
  /\ lastOp.amount = 230 * Dollar

(* C28: an active custom tip has a numeric value of 1.00 or more:          *)
(* customTip is empty or parses to a number >= 1.00, so the derived tip is *)
(* never a custom amount strictly between 0 and 1.00.                      *)
C28_CustomTipAtLeastOne ==
  /\ customTip = <<>> \/ parseFloat(customTip) >= Dollar
  /\ customTip # <<>> => derivedAmounts.tip >= Dollar

(* 0.50 typed over an active custom tip of 5: the tip stays 5.00 *)
C28_Witness ==
  /\ lastOp.op = "setCustomTipText"
  /\ lastOp.text = <<"0", ".", "5", "0">>
  /\ customTip = <<"5">>
  /\ derivedAmounts.tip = 5 * Dollar

----------------------------------------------------------------------------
(* Properties of the services *)

(* a field that is a string with at least one character that is not white  *)
(* space                                                                   *)
NonBlank(field) ==
  /\ field.kind = "string"
  /\ \E k \in 1..Len(field.text) : field.text[k] \notin WhiteSpace

(* C19: isProfileComplete(profile) is true exactly when business_name and  *)
(* phone are both present and non-empty after trimming white space; a      *)
(* missing, null, empty or white-space-only value of either makes it false *)
C19_CompleteIffBothNonBlank ==
  profileCheck.done =>
    (profileCheck.complete <=>
       /\ NonBlank(profileCheck.profile.business_name)
       /\ NonBlank(profileCheck.profile.phone))

(* a white-space-only phone next to a real business name: incomplete *)
C19_Witness ==
  /\ profileCheck.done
  /\ profileCheck.profile.business_name = String(<<"a">>)
  /\ profileCheck.profile.phone = String(<<" ">>)
  /\ ~profileCheck.complete

(* an error object with a message and a code *)
StructuredError(error) == error.message # "" /\ error.code # ""

----------------------------------------------------------------------------
(* Properties of the App component *)

(* C21: after handleLogoutConfirm, or an auth event without a session,     *)
(* has cleared the user data, userProfile stays null and isProfileComplete *)
(* and showProfileCompletion stay false until an auth event with a session *)
(* arrives, even when a loadUserProfile started before completes after.    *)
C21_ClearedStaysCleared ==
  app.cleared =>
    /\ app.userProfile = <<>>
    /\ ~app.isProfileComplete
    /\ ~app.showProfileCompletion

(* C23: once the authentication modal is open it stays open across every   *)
(* user action and closes only on an auth event that carries a session.    *)
C23_AuthModalStaysOpen ==
  [][ (app.isAuthModalOpen /\ ~app'.isAuthModalOpen)
      => (app'.last.op = "onAuthStateChange" /\ app'.last.session) ]_vars

(* onClose ran on the open modal and it is still open *)
C23_Witness ==
  /\ app.last.op = "onClose"
  /\ app.isAuthModalOpen
  /\ ~app.isAuthenticated

(* the user is authenticated and the profile that was loaded is incomplete *)
IncompleteProfileLoaded(a) ==
  /\ a.isAuthenticated
  /\ a.userProfile # <<>>
  /\ ~isProfileComplete(a.userProfile[1])

(* C24: where the user is authenticated and the loaded profile is          *)
(* incomplete, handleNavigation(view) leaves currentView unchanged.        *)
C24_NoNavigationWhileIncomplete ==
  [][ (app'.last.op = "handleNavigation" /\ IncompleteProfileLoaded(app))
      => app'.currentView = app.currentView ]_vars

(* C29: at most one auth-state-change subscription registered by App is    *)
(* live at any time.                                                       *)
C29_AtMostOneSubscription == Cardinality(LiveSubscriptions(app)) <= 1

(* C30: after the app mounts isLoading eventually becomes false, whatever  *)
(* getSession yields and without waiting for the profile load, and it is   *)
(* never set back to true.                                                 *)
C30_LoadingEnds ==
  /\ <>(~app.isLoading)
  /\ [][~app.isLoading => ~app'.isLoading]_vars

(* past the loading screen with the profile load still pending *)
C30_Witness ==
  /\ ~app.isLoading
  /\ app.isAuthenticated
  /\ app.pendingLoads = 1
  /\ app.userProfile = <<>>

----------------------------------------------------------------------------
(* Properties of ProfileService *)

CallsOf(op) ==
  {k \in 1..Len(store.calls) : store.calls[k].op = op}

(* C22: for any interleaving of concurrent createProfile and               *)
(* getOrCreateProfile calls for the same user, at most one Profile row is  *)
(* inserted for that user.                                                 *)
C22_AtMostOneInsert ==
  Cardinality({k \in 1..Len(store.calls) : store.calls[k].inserted > 0}) <= 1

(* C25: getOrCreateProfile returns the existing profile and inserts        *)
(* nothing when its lookup finds one; it goes on to insert only when the   *)
(* lookup reported PGRST116; when the lookup fails with any other error it *)
(* returns that error with profile = null and inserts nothing.             *)
C25_GetOrCreateProfile ==
  \A k \in CallsOf("getOrCreateProfile") :
    LET call == store.calls[k]
        got == call.lookup.result
    IN /\ got.profile # <<>> =>
            /\ call.pc = "done"
            /\ call.result = Result(got.profile, <<>>)
            /\ call.inserted = 0
       /\ (call.pc \in {"exists", "insert"} \/ call.inserted > 0) =>
            /\ call.lookup.kind = "rows"
            /\ got.profile = <<>>
            /\ got.error[1].code = Some("PGRST116")
       /\ call.lookup.kind \in {"error", "throws"} =>
            /\ call.pc = "done"
            /\ call.result = Result(<<>>, got.error)
            /\ got.error # <<>>
            /\ call.inserted = 0

(* one call got a database error from its lookup and returned it, another  *)
(* found no profile and inserted one                                       *)
C25_Witness ==
  /\ Len(store.calls) = 2
  /\ store.calls[1].op = "getOrCreateProfile"
  /\ store.calls[1].lookup.kind = "error"
  /\ store.calls[1].pc = "done"
  /\ store.calls[1].result.error # <<>>
  /\ store.calls[2].op = "getOrCreateProfile"
  /\ store.calls[2].pc = "done"
  /\ store.calls[2].inserted = 1
  /\ store.calls[2].result.profile # <<>>

(* call k of updateProfile, alone or under updateProfileWithValidation,    *)
(* takes its step from pc                                                  *)
UpdateProfileStep(k, pc) ==
  /\ Calling(k, pc)
  /\ store'.calls[k].pc # pc

(* a row of the next state is a row of this state, or the row with this id *)
(* with its id, user_id, email and created_at as they were                 *)
OnlyRowChanged(id) ==
  \A q \in store'.rows :
    \/ q \in store.rows
    \/ \E r \in store.rows :
         /\ r.id = id
         /\ q.id = r.id
         /\ q.user_id = r.user_id
         /\ q.email = r.email
         /\ q.created_at = r.created_at

(* no row of this state is gone in the next but the rows with these ids,   *)
(* which may have changed but are still there                              *)
NoRowDeletedBut(ids, changed) ==
  \A r \in store.rows :
    \/ r \in store'.rows
    \/ r.id \in ids
    \/ r.id \in changed /\ \E q \in store'.rows : q.id = r.id

(* updateProfile finds no row of the user: it returns without writing,     *)
(* with NO_PROFILE unless the select itself failed                         *)
NoProfileNoWrite(k) ==
  (UpdateProfileStep(k, "fetch") /\ profilesOf(store.rows, UserId) = <<>>)
    => /\ store'.rows = store.rows
       /\ store'.calls[k].pc = "done"
       /\ ~store'.calls[k].wrote
       /\ store'.calls[k].result.profile = <<>>
       /\ store'.calls[k].result.error[1].code
            \in {Some("NO_PROFILE"), Some(DatabaseError.code)}

ShorterThanTwo(field) == field.kind = "string" /\ Len(trim(field.text)) < 2

FailsValidation(updates) ==
  \/ ShorterThanTwo(updates.name)
  \/ ShorterThanTwo(updates.business_name)
  \/ updates.phone.kind = "string" /\ ~phonePattern(updates.phone.text)

(* C27: when the name or the business_name is shorter than 2 characters    *)
(* after trimming, or the phone does not match the pattern,                *)
(* updateProfileWithValidation returns an error with profile = null and    *)
(* leaves the stored profile unchanged.                                    *)
C27_InvalidUpdatesRefused ==
  \A k \in CallsOf("updateProfileWithValidation") :
    FailsValidation(store.calls[k].updates) =>
      /\ ~store.calls[k].wrote
      /\ store.calls[k].pc = "done" =>
           /\ store.calls[k].result.profile = <<>>
           /\ store.calls[k].result.error # <<>>

====
